---- MODULE Spec2Model ----
(***************************************************************************)
(* The voice session engine of src/App.tsx.  The file holds two variants   *)
(* of the application component: the first (lines 1-850) and the second    *)
(* (lines 852-1353).  `variant` says which of the two is running; every    *)
(* handler is translated for both.                                         *)
(*                                                                         *)
(* Left out of the state: the transcript log (addLog), refreshTrigger, the *)
(* scroll / drawer / modal flags and the selected voice: no handler reads  *)
(* them back.                                                              *)
(***************************************************************************)
EXTENDS Integers, Sequences, FiniteSets, TLC

\* ------------------------------------------------------------------ bounds
MaxChannels == 2
MaxMsgs == 3
MaxToolMsgs == 2
MaxBatch == 2
MaxTime == 3
MaxDur == 2
MaxPriceMsgs == 1
MaxBookingMsgs == 3
MaxDraftMsgs == 2
MaxClockMsgs == 1

\* ------------------------------------------------------------- vocabulary
DISCONNECTED == "DISCONNECTED"
CONNECTING == "CONNECTING"
CONNECTED == "CONNECTED"
ERROR == "ERROR"
ConnectionState == {DISCONNECTED, CONNECTING, CONNECTED, ERROR}

NoUser == "null"
Users == {"ada@omni"}
Accounts == Users \cup {"bob@omni"}
Null == 0
NaN == -1
NoAudio == 0
BadAudio == -1

VARIABLES
  variant,               \* 1: first App component, 2: second App component
  apiKey,                \* process.env.API_KEY is set
  user,                  \* useState<User | null>, by e-mail
  connectionState,
  channels,              \* one record per ai.live.connect call, in call order
  sessionRef,            \* Null or the index of the channel it holds
  mediaStreamRef,        \* Null or the acquisition (channel index) it holds
  inputAudioContextRef,
  processorRef,
  outputAudioContextRef, \* Null or the number of the output context it holds
  liveStreams,           \* acquisitions whose media tracks are live
  disabledTracks,        \* acquisitions whose tracks have enabled = false
  runningInputCtx,       \* input contexts not closed
  processors,            \* acquisition -> input context its processor feeds, connected ones only
  outputCtxCount,        \* output contexts created so far
  runningOutputCtx,      \* output contexts not closed
  nextStartTimeRef,      \* PlaybackClock
  scheduledSourcesRef,   \* the scheduled set (activeSourcesRef in the second variant)
  now,                   \* the device clock, ctx.currentTime
  pending,               \* onmessage invocations suspended at `await decodeAudioData`
  msgCount,              \* inbound messages delivered so far
  isMuted,
  audioLevel,            \* sign of the level: 0 or 1 (positive)
  toasts,                \* types of the toasts on display
  currentBooking,
  finalizedBooking,
  bookings,              \* localStorage 'omni_bookings'
  emailStatus,
  emailsPending,         \* sendConfirmationEmail timers not yet fired
  toolResponses,         \* history: function responses handed to an open channel, in order
  toolLog,               \* history: message number of each executed tool call, in order
  playLog,               \* history: chunks started since the last flush / interruption signal
  terminated,            \* history: toolCall messages whose handler has returned or thrown,
                         \* and whether their channel was open then
  lastInterrupt,         \* history: number of the latest message that carried `interrupted`
  framesSent,            \* history: the values of the mute flag under which a frame reached
                         \* an open channel since the last stopAudio
  ended                  \* history: "close" / "end" since the session last ended, "" from connect on

connVars == <<connectionState, channels, sessionRef>>
captureVars == <<mediaStreamRef, inputAudioContextRef, processorRef, liveStreams,
                 disabledTracks, runningInputCtx, processors, isMuted, audioLevel>>
playVars == <<outputAudioContextRef, outputCtxCount, runningOutputCtx,
              nextStartTimeRef, scheduledSourcesRef>>
bookingVars == <<currentBooking, finalizedBooking, bookings, emailStatus, emailsPending>>
historyVars == <<toolResponses, toolLog, playLog, terminated, lastInterrupt, framesSent, ended>>
vars == <<variant, apiKey, user, connVars, captureVars, playVars, bookingVars,
          now, pending, msgCount, toasts, historyVars>>

\* ------------------------------------------------------------- helpers
Max(a, b) == IF a >= b THEN a ELSE b

Abs(a) == IF a < 0 THEN -a ELSE a

\* Math.ceil(a / b) for a >= 0, b > 0
CeilDiv(a, b) == (a + b - 1) \div b

\* { ...a, ...b } on objects, as functions from field names
Spread(a, b) ==
  [f \in (DOMAIN a) \cup (DOMAIN b) |-> IF f \in DOMAIN b THEN b[f] ELSE a[f]]

\* ------------------------------------------------------------- strings
\* A free-text argument is a sequence of one-character strings.
UpperCase == <<"A","B","C","D","E","F","G","H","I","J","K","L","M",
               "N","O","P","Q","R","S","T","U","V","W","X","Y","Z">>
LowerCase == <<"a","b","c","d","e","f","g","h","i","j","k","l","m",
               "n","o","p","q","r","s","t","u","v","w","x","y","z">>

\* a room type matched as typed
toLowerCaseOmitted(s) == s

toLowerCase(s) ==
  [i \in DOMAIN s |->
     IF \E k \in DOMAIN UpperCase : UpperCase[k] = s[i]
     THEN LowerCase[CHOOSE k \in DOMAIN UpperCase : UpperCase[k] = s[i]]
     ELSE s[i]]

\* String.prototype.includes
includes(s, r) ==
  \E i \in 0..(Len(s) - Len(r)) : \A j \in 1..Len(r) : s[i + j] = r[j]

\* ------------------------------------------------------------- pricing
\* Object.keys(ROOM_RATES) keeps the declared order.
ROOM_RATES ==
  << [key |-> <<"s","t","a","n","d","a","r","d">>, rate |-> 150],
     [key |-> <<"d","o","u","b","l","e">>, rate |-> 180],
     [key |-> <<"d","e","l","u","x","e">>, rate |-> 250],
     [key |-> <<"f","a","m","i","l","y">>, rate |-> 300],
     [key |-> <<"s","u","i","t","e">>, rate |-> 450],
     [key |-> <<"p","r","e","s","i","d","e","n","t","i","a","l">>, rate |-> 1200] >>

\* One day, (1000 * 60 * 60 * 24) ms, counted in units of 12 hours.
MsPerDay == 2

\* new Date(s).getTime() on the date strings the model uses, in units of
\* 12 hours from 2024-06-01T00:00Z; NaN for a string that does not parse.
getTime(s) ==
  CASE s = "2024-06-01" -> 0
    [] s = "2024-06-01T12:00Z" -> 1
    [] s = "2024-06-02" -> 2
    [] s = "2024-06-05" -> 8
    [] OTHER -> NaN

NoCost == [ok |-> FALSE]

\* a date check that lets every date through
isNaNNever(x) == FALSE

\* isNaN(date.getTime()), line 22
isNaN(x) == x = NaN

\* a night count used as computed
OrOneOmitted(n) == n

\* `nights || 1`, lines 32 and 34
OrOne(n) == IF n = 0 THEN 1 ELSE n

calculateStayCost(checkIn, checkOut, roomType) ==
  LET start == getTime(checkIn)
      end == getTime(checkOut)
      diffTime == Abs(end - start)
      nights == CeilDiv(diffTime, MsPerDay)
      lower == toLowerCase(roomType)
      hits == {k \in DOMAIN ROOM_RATES : includes(lower, ROOM_RATES[k].key)}
      \* Array.prototype.find: the first key in order; || 'standard'
      key == IF hits = {} THEN 1 ELSE CHOOSE k \in hits : \A h \in hits : k <= h
      rate == ROOM_RATES[key].rate
      minNights == OrOne(nights)
  IN  IF isNaN(start) \/ isNaN(end)
      THEN NoCost
      ELSE [ok |-> TRUE, nights |-> minNights, rate |-> rate, total |-> minNights * rate]

\* ------------------------------------------------------------- MockDatabase
EmptyObj == [f \in {} |-> 0]

Obj(r) == [f \in DOMAIN r |-> r[f]]

Has(b, f) == f \in DOMAIN b

\* a save that is requested but not carried out before the handler goes on
saveBookingDeferred(store, booking) == store

\* saveBooking: unshift { ...booking, id, created_at, status: 'confirmed' }.
\* id is a fresh UUID: the number of the booking in order of saving.
\* created_at is never read back and is left out.
saveBooking(store, booking) ==
  <<Spread(booking, Obj([id |-> Len(store) + 1, status |-> "confirmed"]))>> \o store

getBookings(store, userEmail) ==
  SelectSeq(store, LAMBDA b : Has(b, "email") /\ b["email"] = userEmail)

IsCode(b, code) == Has(b, "confirmation_code") /\ b["confirmation_code"] = code

\* a cancellation that deletes the booking instead of marking it
cancelBookingStoreDeletes(store, confirmationCode) ==
  SelectSeq(store, LAMBDA b : ~IsCode(b, confirmationCode))

cancelBookingStore(store, confirmationCode) ==
  [i \in DOMAIN store |->
     IF IsCode(store[i], confirmationCode)
     THEN Spread(store[i], Obj([status |-> "cancelled"]))
     ELSE store[i]]

cancelBookingFound(store, confirmationCode) ==
  \E i \in DOMAIN store : IsCode(store[i], confirmationCode)


\* ------------------------------------------------------------- tool dispatch
\* What one pass over message.toolCall.functionCalls reads and writes.
\* d = [cur, fin, store, email, mails, toasts, out]: currentBooking,
\* finalizedBooking, the booking store, emailStatus, e-mail timers started,
\* toasts, and the function responses built so far.

Response(call, result) ==
  [id |-> call.id, name |-> call.name, response |-> [result |-> result]]

\* first variant, lines 563-576
checkAvailability1(call, d) ==
  LET args == call.args
      financials == calculateStayCost(args["check_in_date"], args["check_out_date"],
                                      args["room_type"])
      enrichedDetails ==
        Spread(args, Obj([price_per_night |-> IF financials.ok THEN financials.rate ELSE 0,
                          total_cost |-> IF financials.ok THEN financials.total ELSE 0,
                          total_nights |-> IF financials.ok THEN financials.nights ELSE 0]))
      result ==
        IF financials.ok
        THEN Obj([status |-> "available", nights |-> financials.nights,
                  rate |-> financials.rate, total |-> financials.total, currency |-> "USD"])
        ELSE Obj([status |-> "unavailable", message |-> "Invalid dates or room type."])
  IN  [d EXCEPT !.cur = Spread(d.cur, enrichedDetails),
                !.out = Append(d.out, Response(call, result))]

\* first variant, lines 578-593
finalizeBooking1(call, email, confCode, d) ==
  LET completeBooking ==
        Spread(call.args, Obj([email |-> email, confirmation_code |-> confCode]))
  IN  [d EXCEPT !.cur = completeBooking,
                !.fin = completeBooking,
                !.store = saveBooking(d.store, completeBooking),
                !.email = "sending",
                !.mails = d.mails + 1,
                !.toasts = d.toasts \cup {"success"},
                !.out = Append(d.out, Response(call, Obj([confirmation_code |-> confCode])))]

\* first variant, lines 595-598
listBookings1(call, email, d) ==
  LET activeBookings ==
        SelectSeq(getBookings(d.store, email),
                  LAMBDA b : Has(b, "status") /\ b["status"] = "confirmed")
  IN  [d EXCEPT !.out = Append(d.out, Response(call, activeBookings))]

\* first variant, lines 600-610
cancelBooking1(call, d) ==
  LET code == call.args["confirmation_code"]
      success == cancelBookingFound(d.store, code)
  IN  [d EXCEPT !.store = cancelBookingStore(d.store, code),
                !.toasts = IF success THEN d.toasts \cup {"success"} ELSE d.toasts,
                !.out = Append(d.out, Response(call,
                          IF success
                          THEN Obj([status |-> "success", message |-> "Booking cancelled"])
                          ELSE Obj([status |-> "error", message |-> "Booking not found"])))]

\* second variant, lines 1156-1160
checkAvailability2(call, d) ==
  LET args == call.args
      financials == calculateStayCost(args["check_in_date"], args["check_out_date"],
                                      args["room_type"])
      result ==
        IF financials.ok
        THEN Obj([status |-> "available", nights |-> financials.nights,
                  rate |-> financials.rate, total |-> financials.total])
        ELSE Obj([status |-> "available"])
  IN  [d EXCEPT !.cur = IF financials.ok
                        THEN Spread(args, Obj([total_cost |-> financials.total]))
                        ELSE args,
                !.out = Append(d.out, Response(call, result))]

\* second variant, lines 1161-1167
finalizeBooking2(call, email, code, d) ==
  LET booking == Spread(call.args, Obj([email |-> email, confirmation_code |-> code]))
  IN  [d EXCEPT !.fin = booking,
                !.store = saveBooking(d.store, booking),
                !.out = Append(d.out, Response(call,
                          Obj([status |-> "success", confirmation_code |-> code])))]

\* The body of `for (const call of message.toolCall.functionCalls)`: the
\* if / else-if chain on call.name, then the response with `let result = {}`
\* when no branch matched.
handleCall(v, call, email, code, d) ==
  IF v = 1
  THEN CASE call.name = "check_availability" -> checkAvailability1(call, d)
         [] call.name = "finalize_booking" -> finalizeBooking1(call, email, code, d)
         [] call.name = "list_bookings" -> listBookings1(call, email, d)
         [] call.name = "cancel_booking" -> cancelBooking1(call, d)
         [] OTHER -> [d EXCEPT !.out = Append(d.out, Response(call, EmptyObj))]
  ELSE CASE call.name = "check_availability" -> checkAvailability2(call, d)
         [] call.name = "finalize_booking" -> finalizeBooking2(call, email, code, d)
         [] OTHER -> [d EXCEPT !.out = Append(d.out, Response(call, EmptyObj))]

\* The loop over the batch; codes[i] is the confirmation code Math.random
\* yields for the i-th call.
RECURSIVE handleCalls(_, _, _, _, _, _)
handleCalls(v, calls, i, email, codes, d) ==
  IF i > Len(calls)
  THEN d
  ELSE handleCalls(v, calls, i + 1, email, codes,
                   handleCall(v, calls[i], email, codes[i], d))


\* ------------------------------------------------------------- inputs
Codes == {"OMNI-0001", "OMNI-0002"}

Suite == <<"S","u","i","t","e">>

CheckArgs(in, out) ==
  Obj([room_type |-> Suite, check_in_date |-> in, check_out_date |-> out])

FinalizeArgs ==
  Obj([name |-> "Ada", phone |-> "555", room_type |-> Suite,
       check_in_date |-> "2024-06-01", check_out_date |-> "2024-06-05"])

QuoteArgs(roomType, in, out) ==
  Obj([room_type |-> roomType, check_in_date |-> in, check_out_date |-> out])

\* date strings: parseable ones and one that is not
Dates == {"2024-06-01", "2024-06-01T12:00Z", "2024-06-05", "not-a-date"}

DeluxeRoomPlease ==
  <<"d","e","l","u","x","e"," ","r","o","o","m"," ","p","l","e","a","s","e">>
PresidentialSuite ==
  <<"P","r","e","s","i","d","e","n","t","i","a","l"," ","S","u","i","t","e">>
Penthouse == <<"p","e","n","t","h","o","u","s","e">>
FamilyDouble == <<"F","A","M","I","L","Y"," ","d","o","u","b","l","e">>

RoomTypes == {Suite, DeluxeRoomPlease, PresidentialSuite, Penthouse, FamilyDouble}

\* the check_availability calls of a pricing run
PricingCalls ==
  { [name |-> "check_availability", args |-> QuoteArgs(rt, in, out)] :
      rt \in RoomTypes, in \in Dates, out \in Dates }

\* The calls of a booking run: the tools declared to the remote agent
\* (functionDeclarations, line 532: the first variant; line 1080: the second,
\* which declares no list_bookings) and a tool name that is not declared.
FinalizeCall == [name |-> "finalize_booking", args |-> FinalizeArgs]

ListCall == [name |-> "list_bookings", args |-> EmptyObj]

CancelCalls ==
  {[name |-> "cancel_booking", args |-> Obj([confirmation_code |-> c])] : c \in Codes}

UnknownCall == [name |-> "get_weather", args |-> EmptyObj]

BookingCalls(v) ==
  {FinalizeCall, UnknownCall} \cup CancelCalls \cup (IF v = 1 THEN {ListCall} ELSE {})

\* a message that carries one tool call and nothing else
CallMessage(call) == [audio |-> NoAudio, interrupted |-> FALSE, calls |-> <<call>>]

\* The tool calls the remote agent issues in a session run.
SessionCalls ==
  { [name |-> "check_availability", args |-> CheckArgs("2024-06-01", "2024-06-05")],
    [name |-> "finalize_booking", args |-> FinalizeArgs] }

Batches(callSet) ==
  UNION {[1..k -> callSet] : k \in 0..MaxBatch}

\* A LiveServerMessage: inline audio (NoAudio, BadAudio for a payload that
\* does not decode, or the duration of the chunk), the interruption flag and
\* the function calls of its toolCall (<<>> when it has none).
Messages(callSet) ==
  [audio : {NoAudio, BadAudio} \cup (1..MaxDur),
   interrupted : BOOLEAN,
   calls : Batches(callSet)]

\* call ids are assigned by the transport, unique within a session
WithIds(n, calls) ==
  [i \in DOMAIN calls |-> [id |-> <<n, i>>, name |-> calls[i].name, args |-> calls[i].args]]

\* ------------------------------------------------------------- state
Channel(u) == [st |-> "connecting", closeReq |-> FALSE, user |-> u, mic |-> "none"]

Init ==
  /\ variant \in {1, 2}
  /\ apiKey \in BOOLEAN
  \* the first variant restores the user from localStorage 'omni_user'
  /\ user \in IF variant = 1 THEN Users \cup {NoUser} ELSE {NoUser}
  /\ connectionState = DISCONNECTED
  /\ channels = <<>>
  /\ sessionRef = Null
  /\ mediaStreamRef = Null
  /\ inputAudioContextRef = Null
  /\ processorRef = Null
  /\ outputAudioContextRef = Null
  /\ liveStreams = {}
  /\ disabledTracks = {}
  /\ runningInputCtx = {}
  /\ processors = {}
  /\ outputCtxCount = 0
  /\ runningOutputCtx = {}
  /\ nextStartTimeRef = 0
  /\ scheduledSourcesRef = {}
  /\ now = 0
  /\ pending = {}
  /\ msgCount = 0
  /\ isMuted = FALSE
  /\ audioLevel = 0
  /\ toasts = {}
  /\ currentBooking = EmptyObj
  /\ finalizedBooking = EmptyObj     \* null: a finalized booking is never empty
  /\ bookings = <<>>
  /\ emailStatus = "idle"
  /\ emailsPending = 0
  /\ toolResponses = <<>>
  /\ toolLog = <<>>
  /\ playLog = <<>>
  /\ terminated = {}
  /\ lastInterrupt = 0
  /\ framesSent = {}
  /\ ended = ""

\* ------------------------------------------------------------- audio
addToast(type) == toasts' = toasts \cup {type}

\* a connect request that shows the session as established at once
setConnectionStateSkipsConnecting(s) ==
  connectionState' = IF s = CONNECTING THEN CONNECTED ELSE s

\* the setter of useState<ConnectionState>, lines 379 and 993
setConnectionState(s) == connectionState' = s

\* a stop that halts the scheduled sources but keeps them in the set
stopAudioKeepsSources ==
  /\ runningInputCtx' = runningInputCtx \ {inputAudioContextRef}
  /\ inputAudioContextRef' = Null
  /\ runningOutputCtx' = runningOutputCtx \ {outputAudioContextRef}
  /\ outputAudioContextRef' = Null
  /\ processors' = IF variant = 1
                   THEN {p \in processors : p[1] # processorRef}
                   ELSE processors
  /\ processorRef' = Null
  /\ liveStreams' = liveStreams \ {mediaStreamRef}
  /\ mediaStreamRef' = Null
  /\ scheduledSourcesRef' = scheduledSourcesRef
  /\ nextStartTimeRef' = 0
  /\ audioLevel' = 0
  /\ isMuted' = IF variant = 1 THEN FALSE ELSE isMuted
  /\ UNCHANGED <<disabledTracks, outputCtxCount>>

\* stopAudio, lines 437-448 (first variant) and 1047-1062 (second variant):
\* each handle is released if it is held, the scheduled sources are stopped
\* and cleared, the PlaybackClock and the level are zeroed.
stopAudio ==
  /\ runningInputCtx' = runningInputCtx \ {inputAudioContextRef}
  /\ inputAudioContextRef' = Null
  /\ runningOutputCtx' = runningOutputCtx \ {outputAudioContextRef}
  /\ outputAudioContextRef' = Null
  /\ processors' = IF variant = 1
                   THEN {p \in processors : p[1] # processorRef}
                   ELSE processors
  /\ processorRef' = Null
  /\ liveStreams' = liveStreams \ {mediaStreamRef}
  /\ mediaStreamRef' = Null
  /\ scheduledSourcesRef' = {}
  /\ nextStartTimeRef' = 0
  /\ audioLevel' = 0
  /\ isMuted' = IF variant = 1 THEN FALSE ELSE isMuted
  /\ UNCHANGED <<disabledTracks, outputCtxCount>>

\* what the history variables record of a stopAudio
StopHistory == playLog' = <<>> /\ framesSent' = {}


\* ------------------------------------------------------------- connection
setChannel(ch, field, value) == channels' = [channels EXCEPT ![ch][field] = value]

\* connectToGemini, lines 513-534 and 630-636 (first variant), 1065-1082 and
\* 1193-1197 (second variant).  The button that calls it is rendered in
\* DISCONNECTED or ERROR with a user (first variant, lines 744-751) and in
\* DISCONNECTED only (second variant, line 1252).  `new GoogleGenAI` throws
\* without an API key; the first variant returns before it.
connectToGemini ==
  /\ user # NoUser
  /\ Len(channels) < MaxChannels
  /\ IF variant = 1
     THEN /\ connectionState \in {DISCONNECTED, ERROR}
          /\ IF ~apiKey
             THEN /\ addToast("error")
                  /\ UNCHANGED <<connVars, bookingVars, ended>>
             ELSE /\ setConnectionState(CONNECTING)
                  /\ finalizedBooking' = EmptyObj
                  /\ currentBooking' = EmptyObj
                  /\ emailStatus' = "idle"
                  /\ channels' = Append(channels, Channel(user))
                  /\ sessionRef' = Len(channels) + 1
                  /\ ended' = ""
                  /\ UNCHANGED <<bookings, emailsPending, toasts>>
     ELSE /\ connectionState = DISCONNECTED
          /\ ended' = ""
          /\ IF ~apiKey
             THEN /\ setConnectionState(ERROR)
                  /\ addToast("error")
                  /\ UNCHANGED <<channels, sessionRef>>
             ELSE /\ setConnectionState(CONNECTING)
                  /\ channels' = Append(channels, Channel(user))
                  /\ sessionRef' = Len(channels) + 1
                  /\ UNCHANGED toasts
          /\ UNCHANGED bookingVars
  /\ UNCHANGED <<variant, apiKey, user, captureVars, playVars, now, pending, msgCount,
                 toolResponses, toolLog, playLog, terminated, lastInterrupt, framesSent>>

\* callbacks.onopen, lines 536-541 and 1084-1090: the state is set to
\* CONNECTED and the microphone is requested (startAudio / getUserMedia).
\* The session promise resolves after it, and a close() queued on that
\* promise by the second variant's End Call then runs.
onopen(ch) ==
  /\ channels[ch].st = "connecting"
  /\ setConnectionState(CONNECTED)
  /\ addToast("success")
  /\ channels' = [channels EXCEPT ![ch].st = IF channels[ch].closeReq THEN "closing" ELSE "open",
                                  ![ch].mic = "pending"]
  /\ UNCHANGED <<variant, apiKey, user, sessionRef, captureVars, playVars, bookingVars,
                 now, pending, msgCount, historyVars>>

\* callbacks.onclose, lines 616-620 and 1182-1185
onclose(ch) ==
  /\ channels[ch].st \in {"open", "closing", "errored"}
  /\ setConnectionState(DISCONNECTED)
  /\ stopAudio
  /\ StopHistory
  /\ ended' = "close"
  /\ setChannel(ch, "st", "closed")
  /\ UNCHANGED <<variant, apiKey, user, sessionRef, bookingVars, now, pending, msgCount,
                 toasts, toolResponses, toolLog, terminated, lastInterrupt>>

\* callbacks.onerror, lines 621-627 and 1186-1190; the transport closes the
\* channel after an error, so onclose follows.
onerror(ch) ==
  /\ channels[ch].st \in {"connecting", "open"}
  /\ setConnectionState(ERROR)
  /\ addToast("error")
  /\ stopAudio
  /\ StopHistory
  /\ setChannel(ch, "st", "errored")
  /\ UNCHANGED <<variant, apiKey, user, sessionRef, bookingVars, now, pending, msgCount,
                 toolResponses, toolLog, terminated, lastInterrupt, ended>>

\* endCall, lines 639-646 (button at line 755, rendered in CONNECTING and
\* CONNECTED); the second variant's inline End Call handler, line 1265
\* (rendered whenever the state is not DISCONNECTED): it closes the session
\* once the session promise has resolved.
endCall ==
  /\ IF variant = 1
     THEN /\ connectionState \in {CONNECTING, CONNECTED}
          /\ sessionRef # Null
          /\ sessionRef' = Null
          /\ UNCHANGED channels
     ELSE /\ connectionState # DISCONNECTED
          /\ channels' =
               IF sessionRef = Null THEN channels
               ELSE IF channels[sessionRef].st = "open"
                    THEN [channels EXCEPT ![sessionRef].st = "closing"]
                    ELSE IF channels[sessionRef].st = "connecting"
                         THEN [channels EXCEPT ![sessionRef].closeReq = TRUE]
                         ELSE channels
          /\ UNCHANGED sessionRef
  /\ stopAudio
  /\ StopHistory
  /\ setConnectionState(DISCONNECTED)
  /\ ended' = "end"
  /\ UNCHANGED <<variant, apiKey, user, bookingVars, now, pending, msgCount, toasts,
                 toolResponses, toolLog, terminated, lastInterrupt>>


\* ------------------------------------------------------------- capture
\* The continuation of `await navigator.mediaDevices.getUserMedia` for the
\* request channel ch's onopen made: startAudio lines 452-493 (first
\* variant), the .then of lines 1090-1117 (second variant).  Audio contexts
\* are created running, so the `suspended` branches do not run.
getUserMediaResolved(ch) ==
  /\ channels[ch].mic = "pending"
  /\ setChannel(ch, "mic", "granted")
  /\ mediaStreamRef' = ch
  /\ liveStreams' = liveStreams \cup {ch}
  /\ IF variant = 1
     THEN /\ inputAudioContextRef' = ch
          /\ runningInputCtx' = runningInputCtx \cup {ch}
          /\ processorRef' = ch
          /\ processors' = processors \cup {<<ch, ch>>}
          /\ outputCtxCount' = outputCtxCount + 1
          /\ outputAudioContextRef' = outputCtxCount + 1
          /\ runningOutputCtx' = runningOutputCtx \cup {outputCtxCount + 1}
     ELSE /\ inputAudioContextRef' =
               IF inputAudioContextRef = Null THEN ch ELSE inputAudioContextRef
          /\ runningInputCtx' = runningInputCtx \cup {inputAudioContextRef'}
          /\ processors' = processors \cup {<<ch, inputAudioContextRef'>>}
          /\ UNCHANGED <<processorRef, outputCtxCount, outputAudioContextRef, runningOutputCtx>>
  /\ UNCHANGED <<variant, apiKey, user, connectionState, sessionRef, disabledTracks, isMuted,
                 audioLevel, nextStartTimeRef, scheduledSourcesRef, bookingVars, now, pending,
                 msgCount, toasts, historyVars>>

\* getUserMedia rejects: the catch of startAudio, lines 494-499, and the
\* .catch of lines 1118-1121.
getUserMediaRejected(ch) ==
  /\ channels[ch].mic = "pending"
  /\ setChannel(ch, "mic", "denied")
  /\ setConnectionState(ERROR)
  /\ addToast("error")
  /\ UNCHANGED <<variant, apiKey, user, sessionRef, captureVars, playVars, bookingVars,
                 now, pending, msgCount, historyVars>>

\* A frame handed to channel ch's session reaches the remote agent only
\* while that channel is open.
Delivered(ch) == channels[ch].st = "open"

\* processor.onaudioprocess, lines 467-485 and 1099-1114, for the processor
\* of acquisition a; rms is the energy of the frame (0: silence).  The level
\* is kept by its sign: prev * 0.8 + x * 2.0 is positive iff prev or x is.
onaudioprocess(a, rms) ==
  /\ \E p \in processors : p[1] = a /\ p[2] \in runningInputCtx
  /\ IF variant = 1
     THEN /\ audioLevel' =
               IF audioLevel > 0
                  \/ (mediaStreamRef # Null /\ mediaStreamRef \notin disabledTracks /\ rms > 0)
               THEN 1 ELSE 0
          /\ framesSent' = IF Delivered(a) THEN framesSent \cup {isMuted} ELSE framesSent
     ELSE /\ audioLevel' = rms
          /\ framesSent' = IF ~isMuted /\ Delivered(a)
                         THEN framesSent \cup {isMuted} ELSE framesSent
  /\ UNCHANGED <<variant, apiKey, user, connVars, mediaStreamRef, inputAudioContextRef,
                 processorRef, liveStreams, disabledTracks, runningInputCtx, processors,
                 isMuted, playVars, bookingVars, now, pending, msgCount, toasts,
                 toolResponses, toolLog, playLog, terminated, lastInterrupt, ended>>

\* toggleMute, lines 502-508 (button at line 754); the second variant's mute
\* button, line 1262, with isMutedRef following isMuted (lines 1017-1019).
toggleMute ==
  /\ IF variant = 1
     THEN /\ connectionState \in {CONNECTING, CONNECTED}
          /\ mediaStreamRef # Null
          /\ disabledTracks' = IF ~isMuted
                               THEN disabledTracks \cup {mediaStreamRef}
                               ELSE disabledTracks \ {mediaStreamRef}
     ELSE /\ connectionState # DISCONNECTED
          /\ UNCHANGED disabledTracks
  /\ isMuted' = ~isMuted
  /\ UNCHANGED <<variant, apiKey, user, connVars, mediaStreamRef, inputAudioContextRef,
                 processorRef, liveStreams, runningInputCtx, processors, audioLevel,
                 playVars, bookingVars, now, pending, msgCount, toasts, historyVars>>


\* ------------------------------------------------------------- inbound messages
\* decodeAudioData(bytes, ctx, ...) of utils/audioUtils: a promise of the
\* decoded buffer, rejected for a payload that does not decode.
decodeAudioData(data) == [ok |-> data # BadAudio, duration |-> data]

CallRefs(calls) ==
  [i \in DOMAIN calls |-> [id |-> calls[i].id, name |-> calls[i].name, args |-> calls[i].args]]

\* `if (message.toolCall) { ... }`, lines 557-614 and 1153-1180, for message
\* n of channel ch: the calls are executed in order and the responses are
\* handed to the session (one sendToolResponse for the batch in the first
\* variant, one per call in the second).  The session promise is resolved
\* by the time a message arrives, so the hand-over is part of the step.
toolCallBranch(ch, n, calls) ==
  IF calls = <<>>
  THEN UNCHANGED <<bookingVars, toasts, toolResponses, toolLog, terminated>>
  ELSE \E codes \in [DOMAIN calls -> Codes] :
         LET d0 == [cur |-> currentBooking, fin |-> finalizedBooking, store |-> bookings,
                    email |-> emailStatus, mails |-> 0, toasts |-> toasts, out |-> <<>>]
         IN  \E d \in {handleCalls(variant, calls, 1, channels[ch].user, codes, d0)} :
             /\ currentBooking' = d.cur
             /\ finalizedBooking' = d.fin
             /\ bookings' = d.store
             /\ emailStatus' = d.email
             /\ emailsPending' = emailsPending + d.mails
             /\ toasts' = d.toasts
             /\ toolResponses' = IF Delivered(ch) THEN toolResponses \o d.out ELSE toolResponses
             /\ toolLog' = toolLog \o [i \in DOMAIN calls |-> n]
             /\ terminated' = terminated \cup
                  {[msg |-> n, calls |-> CallRefs(calls), open |-> Delivered(ch)]}

\* callbacks.onmessage up to its first suspension, lines 542-546 and
\* 1123-1138: the interruption branch (second variant only), the lazily
\* created output context (second variant only), then either the await of
\* decodeAudioData or, with no audio to decode, the toolCall branch.
onmessage(ch, m) ==
  LET n == msgCount + 1
      calls == WithIds(n, m.calls)
      createsCtx == variant = 2 /\ m.audio # NoAudio /\ outputAudioContextRef = Null
      decodes == m.audio # NoAudio /\ (variant = 2 \/ outputAudioContextRef # Null)
  IN  /\ channels[ch].st = "open"
      /\ msgCount < MaxMsgs
      /\ m.audio # NoAudio \/ m.interrupted \/ m.calls # <<>>
      /\ msgCount' = n
      /\ IF variant = 2 /\ m.interrupted
         THEN scheduledSourcesRef' = {} /\ nextStartTimeRef' = 0
         ELSE UNCHANGED <<scheduledSourcesRef, nextStartTimeRef>>
      /\ IF m.interrupted
         THEN lastInterrupt' = n /\ playLog' = <<>>
         ELSE UNCHANGED <<lastInterrupt, playLog>>
      /\ IF createsCtx
         THEN /\ outputCtxCount' = outputCtxCount + 1
              /\ outputAudioContextRef' = outputCtxCount + 1
              /\ runningOutputCtx' = runningOutputCtx \cup {outputCtxCount + 1}
         ELSE UNCHANGED <<outputCtxCount, outputAudioContextRef, runningOutputCtx>>
      /\ IF decodes
         THEN /\ pending' = pending \cup
                   {[msg |-> n, ch |-> ch, ctx |-> outputAudioContextRef',
                     audio |-> m.audio, calls |-> calls]}
              /\ UNCHANGED <<bookingVars, toasts, toolResponses, toolLog, terminated>>
         ELSE /\ pending' = pending
              /\ toolCallBranch(ch, n, calls)
      /\ UNCHANGED <<variant, apiKey, user, connVars, captureVars, now, framesSent, ended>>

\* The rest of callbacks.onmessage once decodeAudioData has settled, lines
\* 547-614 and 1139-1180, for the suspended invocation p.  A rejected decode
\* throws out of the handler.  Otherwise the chunk is started on the context
\* the invocation captured (ctx.currentTime is the device clock) and the
\* toolCall branch runs.
onmessageResumed(p) ==
  LET audioBuffer == decodeAudioData(p.audio)
      startAt == Max(nextStartTimeRef, now)
      source == [msg |-> p.msg, ctx |-> p.ctx, start |-> startAt,
                 duration |-> audioBuffer.duration]
  IN  /\ p \in pending
      /\ pending' = pending \ {p}
      /\ IF ~audioBuffer.ok
         THEN /\ terminated' = IF p.calls = <<>> THEN terminated
                               ELSE terminated \cup {[msg |-> p.msg, calls |-> CallRefs(p.calls),
                                                    open |-> Delivered(p.ch)]}
              /\ UNCHANGED <<nextStartTimeRef, scheduledSourcesRef, playLog, bookingVars,
                             toasts, toolResponses, toolLog>>
         ELSE /\ scheduledSourcesRef' = scheduledSourcesRef \cup {source}
              /\ nextStartTimeRef' = startAt + audioBuffer.duration
              /\ playLog' = Append(playLog, [msg |-> p.msg, start |-> startAt,
                                             duration |-> audioBuffer.duration,
                                             clock |-> nextStartTimeRef, at |-> now])
              /\ toolCallBranch(p.ch, p.msg, p.calls)
      /\ UNCHANGED <<variant, apiKey, user, connVars, captureVars, outputAudioContextRef,
                     outputCtxCount, runningOutputCtx, now, msgCount, lastInterrupt,
                     framesSent, ended>>

\* source.onended, lines 553 and 1149: a chunk that has played to its end
\* on a running context leaves the scheduled set.
onended(source) ==
  /\ source \in scheduledSourcesRef
  /\ source.ctx \in runningOutputCtx
  /\ now >= source.start + source.duration
  /\ scheduledSourcesRef' = scheduledSourcesRef \ {source}
  /\ UNCHANGED <<variant, apiKey, user, connVars, captureVars, outputAudioContextRef,
                 outputCtxCount, runningOutputCtx, nextStartTimeRef, bookingVars, now,
                 pending, msgCount, toasts, historyVars>>

\* the device clock advances
tick ==
  /\ now < MaxTime
  /\ now' = now + 1
  /\ UNCHANGED <<variant, apiKey, user, connVars, captureVars, playVars, bookingVars,
                 pending, msgCount, toasts, historyVars>>

\* ------------------------------------------------------------- user and timers
\* handleLogin, lines 418-422 and 1032-1036
handleLogin(u) ==
  /\ user = NoUser
  /\ user' = u
  /\ addToast("success")
  /\ UNCHANGED <<variant, apiKey, connVars, captureVars, playVars, bookingVars, now,
                 pending, msgCount, historyVars>>

\* handleLogout, lines 424-432 (first variant: the bookings on display are
\* reset) and 1038-1044 (second variant: stopAudio)
handleLogout ==
  /\ user # NoUser
  /\ user' = NoUser
  /\ addToast("info")
  /\ IF variant = 1
     THEN /\ finalizedBooking' = EmptyObj
          /\ currentBooking' = EmptyObj
          /\ UNCHANGED <<bookings, emailStatus, emailsPending, captureVars, playVars,
                         playLog, framesSent>>
     ELSE /\ stopAudio
          /\ StopHistory
          /\ UNCHANGED bookingVars
  /\ UNCHANGED <<variant, apiKey, connVars, now, pending, msgCount, toolResponses, toolLog,
                 terminated, lastInterrupt, ended>>

\* onCancel of the BookingsDrawer, lines 658-660 (first variant only), from
\* the Cancel Reservation button of lines 347-358: the drawer lists the
\* bookings of the user and offers the button on the confirmed ones.
onCancel(code) ==
  /\ variant = 1
  /\ user # NoUser
  /\ \E i \in DOMAIN bookings :
       /\ Has(bookings[i], "email") /\ bookings[i]["email"] = user
       /\ bookings[i]["status"] = "confirmed"
       /\ IsCode(bookings[i], code)
  /\ bookings' = cancelBookingStore(bookings, code)
  /\ IF cancelBookingFound(bookings, code) THEN addToast("success") ELSE UNCHANGED toasts
  /\ UNCHANGED <<variant, apiKey, user, connVars, captureVars, playVars, currentBooking,
                 finalizedBooking, emailStatus, emailsPending, now, pending, msgCount,
                 historyVars>>

\* the setTimeout of addToast, lines 405 and 1025
toastExpired(type) ==
  /\ type \in toasts
  /\ toasts' = toasts \ {type}
  /\ UNCHANGED <<variant, apiKey, user, connVars, captureVars, playVars, bookingVars, now,
                 pending, msgCount, historyVars>>

\* the .then of sendConfirmationEmail, lines 589-592, after its 2 s timer
emailSent ==
  /\ emailsPending > 0
  /\ emailsPending' = emailsPending - 1
  /\ emailStatus' = "sent"
  /\ addToast("info")
  /\ UNCHANGED <<variant, apiKey, user, connVars, captureVars, playVars, currentBooking,
                 finalizedBooking, bookings, now, pending, msgCount, historyVars>>

\* ------------------------------------------------------------- specification
AllMessages == Messages(SessionCalls)

Next ==
  \/ connectToGemini
  \/ endCall
  \/ toggleMute
  \/ handleLogout
  \/ emailSent
  \/ tick
  \/ \E u \in Users : handleLogin(u)
  \/ \E code \in Codes : onCancel(code)
  \/ \E ch \in DOMAIN channels : onopen(ch)
  \/ \E ch \in DOMAIN channels : onclose(ch)
  \/ \E ch \in DOMAIN channels : onerror(ch)
  \/ \E ch \in DOMAIN channels : getUserMediaResolved(ch)
  \/ \E ch \in DOMAIN channels : getUserMediaRejected(ch)
  \/ \E ch \in DOMAIN channels : \E rms \in {0, 1} : onaudioprocess(ch, rms)
  \/ \E ch \in DOMAIN channels : \E m \in AllMessages : onmessage(ch, m)
  \/ \E p \in pending : onmessageResumed(p)
  \/ \E source \in scheduledSourcesRef : onended(source)
  \/ \E type \in toasts : toastExpired(type)

Spec == Init /\ [][Next]_vars


\* The whole machine is the product of four nearly independent parts (the
\* connection with the capture devices, the playback scheduler, the tool
\* dispatcher, the toasts and timers).  Each property is checked under the
\* specification whose environment drives the part it is about; the actions
\* are the same in all of them.

\* The connection and the capture devices: the remote agent opens, fails
\* and closes channels but sends no message.
NextSession ==
  \/ connectToGemini
  \/ endCall
  \/ toggleMute
  \/ handleLogout
  \/ \E u \in Users : handleLogin(u)
  \/ \E ch \in DOMAIN channels : onopen(ch)
  \/ \E ch \in DOMAIN channels : onclose(ch)
  \/ \E ch \in DOMAIN channels : onerror(ch)
  \/ \E ch \in DOMAIN channels : getUserMediaResolved(ch)
  \/ \E ch \in DOMAIN channels : getUserMediaRejected(ch)
  \/ \E ch \in DOMAIN channels : \E rms \in {0, 1} : onaudioprocess(ch, rms)
  \/ \E type \in toasts : toastExpired(type)

SpecSession == Init /\ [][NextSession]_vars

\* the user starts a single session
connectOnce == channels = <<>> /\ connectToGemini

\* The playback scheduler: one session whose messages carry audio and
\* interruption signals.
AudioMessages == Messages({})

NextPlayback ==
  \/ connectOnce
  \/ endCall
  \/ tick
  \/ \E u \in Users : handleLogin(u)
  \/ \E ch \in DOMAIN channels : onopen(ch)
  \/ \E ch \in DOMAIN channels : onclose(ch)
  \/ \E ch \in DOMAIN channels : getUserMediaResolved(ch)
  \/ \E ch \in DOMAIN channels : \E m \in AudioMessages : onmessage(ch, m)
  \/ \E p \in pending : onmessageResumed(p)
  \/ \E source \in scheduledSourcesRef : onended(source)

SpecPlayback == Init /\ [][NextPlayback]_vars

\* The tool dispatcher: one session whose messages carry tool calls, with
\* or without audio.
ToolMessages == {m \in Messages(SessionCalls) : ~m.interrupted}

NextTools ==
  \/ connectOnce
  \/ endCall
  \/ emailSent
  \/ \E u \in Users : handleLogin(u)
  \/ \E ch \in DOMAIN channels : onopen(ch)
  \/ \E ch \in DOMAIN channels : onclose(ch)
  \/ \E ch \in DOMAIN channels : getUserMediaResolved(ch)
  \/ \E ch \in DOMAIN channels : \E m \in ToolMessages :
        msgCount < MaxToolMsgs /\ onmessage(ch, m)
  \/ \E p \in pending : onmessageResumed(p)

SpecTools == Init /\ [][NextTools]_vars

\* The pricing engine behind check_availability: one session whose
\* messages carry one check_availability call each.
PricingMessages == {CallMessage(c) : c \in PricingCalls}

NextPricing ==
  \/ connectOnce
  \/ endCall
  \/ \E u \in Users : handleLogin(u)
  \/ \E ch \in DOMAIN channels : onopen(ch)
  \/ \E ch \in DOMAIN channels : onclose(ch)
  \/ \E ch \in DOMAIN channels : \E m \in PricingMessages :
        msgCount < MaxPriceMsgs /\ onmessage(ch, m)

SpecPricing == Init /\ [][NextPricing]_vars

\* The booking tools: one session whose messages carry one tool call each,
\* while accounts log in and out and cancel bookings from the drawer.
BookingMessages1 == {CallMessage(c) : c \in BookingCalls(1)}
BookingMessages2 == {CallMessage(c) : c \in BookingCalls(2)}

NextBooking ==
  \/ connectOnce
  \/ handleLogout
  \/ emailSent
  \/ \E u \in Accounts : handleLogin(u)
  \/ \E code \in Codes : onCancel(code)
  \/ \E ch \in DOMAIN channels : onopen(ch)
  \/ \E ch \in DOMAIN channels : onclose(ch)
  \/ \E ch \in DOMAIN channels :
        \E m \in (IF variant = 1 THEN BookingMessages1 ELSE BookingMessages2) :
          msgCount < MaxBookingMsgs /\ onmessage(ch, m)

SpecBooking == Init /\ [][NextBooking]_vars

\* Successive negotiations: the user connects, ends the call and connects
\* again, and the messages of a session carry one tool call each.
DraftMessages == {CallMessage(c) : c \in SessionCalls}

NextRenegotiation ==
  \/ connectToGemini
  \/ endCall
  \/ \E u \in Users : handleLogin(u)
  \/ \E ch \in DOMAIN channels : onopen(ch)
  \/ \E ch \in DOMAIN channels : onclose(ch)
  \/ \E ch \in DOMAIN channels : \E m \in DraftMessages :
        msgCount < MaxDraftMsgs /\ onmessage(ch, m)

SpecRenegotiation == Init /\ [][NextRenegotiation]_vars

\* The PlaybackClock over a session: audio and interruption signals arrive
\* while the user may log out and in again and the channel may fail.
NextClock ==
  \/ connectOnce
  \/ endCall
  \/ handleLogout
  \/ tick
  \/ \E u \in Users : handleLogin(u)
  \/ \E ch \in DOMAIN channels : onopen(ch)
  \/ \E ch \in DOMAIN channels : onclose(ch)
  \/ \E ch \in DOMAIN channels : onerror(ch)
  \/ \E ch \in DOMAIN channels : getUserMediaResolved(ch)
  \/ \E ch \in DOMAIN channels : \E m \in AudioMessages :
        msgCount < MaxClockMsgs /\ onmessage(ch, m)
  \/ \E p \in pending : onmessageResumed(p)

SpecClock == Init /\ [][NextClock]_vars

\* ------------------------------------------------------------- properties

\* C1: for every inbound toolCall event carrying k function calls whose
\* handler has run to its end on a channel that is still open, exactly k
\* function responses were handed to the channel, one per call, each with
\* the id and the name of its call; no call id is answered twice and none
\* is left unanswered.
AnswersTo(id) == {k \in DOMAIN toolResponses : toolResponses[k].id = id}

C1_EveryCallAnsweredOnce ==
  /\ \A t \in {r \in terminated : r.open} :
       /\ \A i \in DOMAIN t.calls :
            /\ Cardinality(AnswersTo(t.calls[i].id)) = 1
            /\ \A k \in AnswersTo(t.calls[i].id) : toolResponses[k].name = t.calls[i].name
       /\ Cardinality({k \in DOMAIN toolResponses : toolResponses[k].id[1] = t.msg})
            = Len(t.calls)
  /\ \A k \in DOMAIN toolResponses : Cardinality(AnswersTo(toolResponses[k].id)) = 1

\* a batch of two calls has been handled and both calls answered
C1_Witness ==
  \E t \in terminated :
    /\ Len(t.calls) = 2
    /\ \A i \in DOMAIN t.calls : AnswersTo(t.calls[i].id) # {}

\* C2: tool calls are handled one inbound message at a time: the tool calls
\* of a message delivered earlier are all executed (and answered) before any
\* tool call of a message delivered later.
C2_ToolCallsInMessageOrder ==
  \A i, j \in DOMAIN toolLog : i < j => toolLog[i] <= toolLog[j]

\* the tool calls of two different messages have been executed
C2_Witness == \E i, j \in DOMAIN toolLog : toolLog[i] # toolLog[j]


\* C3: with no interruption or session end in between, audio chunks are
\* started in the order their messages arrived, each at
\* max(PlaybackClock, device time); consecutive chunks never overlap, and
\* the later one starts exactly where the earlier one ends whenever it is
\* enqueued before the earlier one has finished.
EndOf(c) == c.start + c.duration

C3_Spacing ==
  /\ \A i \in DOMAIN playLog : playLog[i].start = Max(playLog[i].clock, playLog[i].at)
  /\ \A i \in DOMAIN playLog : i < Len(playLog) =>
       /\ playLog[i + 1].start >= EndOf(playLog[i])
       /\ playLog[i + 1].at <= EndOf(playLog[i]) => playLog[i + 1].start = EndOf(playLog[i])

C3_ArrivalOrder ==
  \A i \in DOMAIN playLog : i < Len(playLog) => playLog[i].msg < playLog[i + 1].msg

C3_ChunksInOrderBackToBack == C3_ArrivalOrder /\ C3_Spacing

\* three chunks have been started with no flush in between
C3_Witness == Len(playLog) = 3

\* C4: handling a message that carries the interruption flag leaves the
\* scheduled set empty and the PlaybackClock at zero, and the first chunk
\* enqueued afterwards starts at the device time of its enqueue, not at a
\* start time computed before the interruption.
C4_InterruptionFlushes ==
  /\ [][lastInterrupt' # lastInterrupt =>
          scheduledSourcesRef' = {} /\ nextStartTimeRef' = 0]_vars
  /\ [](lastInterrupt > 0 /\ playLog # <<>> => playLog[1].start = playLog[1].at)

\* an interruption signal has arrived while a chunk was scheduled, and a
\* chunk has been enqueued after it
C4_Witness == lastInterrupt > 1 /\ playLog # <<>> /\ playLog[1].msg > lastInterrupt

\* C5: once an interruption signal has been handled, no chunk carried by a
\* message that arrived before the signal is started or added to the
\* scheduled set.
C5_NoStaleChunkAfterInterruption ==
  \A i \in DOMAIN playLog : playLog[i].msg >= lastInterrupt

\* C6: ConnectionState never becomes Connected without having been
\* Connecting first: every entry into Connected is the opening of a channel
\* that was still being connected, and every channel is created by a connect
\* request that sets the state to Connecting.
C6_ConnectedOnlyAfterConnecting ==
  /\ [][(connectionState' = CONNECTED /\ connectionState # CONNECTED) =>
          \E ch \in DOMAIN channels :
            channels[ch].st = "connecting" /\ channels'[ch].st # "connecting"]_vars
  /\ [][Len(channels') > Len(channels) =>
          connectionState' = CONNECTING]_vars

\* a second session has been opened after the first one was established
C6_Witness ==
  /\ connectionState = CONNECTED
  /\ Len(channels) = 2
  /\ channels[1].st # "connecting"
  /\ channels[2].st = "open"

\* C7: once ConnectionState is Error it becomes Connecting or Connected, and
\* a channel is opened, only by a connect request of the user; no callback
\* of an existing channel and no timer moves Error to Connected.
C7_ErrorLeftOnlyByConnect ==
  [][connectionState = ERROR =>
       /\ connectionState' \in {CONNECTING, CONNECTED} => Len(channels') > Len(channels)
       /\ Len(channels') > Len(channels) => connectionState' = CONNECTING]_vars

\* C8: whenever ConnectionState is Disconnected after a remote close or a
\* local end call, no media track is live, no capture processor is connected
\* to a running context and no audio frame has been sent since.
CaptureStopped ==
  /\ liveStreams = {}
  /\ ~ \E p \in processors : p[2] \in runningInputCtx

C8_MicReleasedWhenDisconnected ==
  connectionState = DISCONNECTED /\ ended # "" => CaptureStopped /\ framesSent = {}

\* C9: after a remote close or a local end call, and until the next
\* connect, the scheduled set is empty and the PlaybackClock is zero.
C9_FlushedAfterEnd ==
  ended # "" => scheduledSourcesRef = {} /\ nextStartTimeRef = 0

\* a session has been ended and its channel has closed
C9_Witness == ended # "" /\ \E c \in DOMAIN channels : channels[c].st = "closed"

\* C10: a remote error event received in Connecting or Connected sets
\* ConnectionState to Error, stops capture, leaves the scheduled set empty
\* and the PlaybackClock at zero, and raises an error toast.
RemoteError ==
  /\ connectionState \in {CONNECTING, CONNECTED}
  /\ \E ch \in DOMAIN channels :
       ch \in DOMAIN channels' /\ channels[ch].st # "errored" /\ channels'[ch].st = "errored"

C10_RemoteErrorStopsSession ==
  [][RemoteError =>
       /\ connectionState' = ERROR
       /\ CaptureStopped'
       /\ scheduledSourcesRef' = {}
       /\ nextStartTimeRef' = 0
       /\ "error" \in toasts']_vars

\* ------------------------------------------------------------- tool contracts
\* the calls whose handling ends in this step, and the responses it hands over
Handled == UNION {{t.calls[i] : i \in DOMAIN t.calls} : t \in terminated' \ terminated}

Sent == {toolResponses'[k] : k \in (Len(toolResponses) + 1)..Len(toolResponses')}

ResultOf(id) == toolResponses[CHOOSE k \in AnswersTo(id) : TRUE].response.result

Answered == {c \in UNION {{t.calls[i] : i \in DOMAIN t.calls} : t \in terminated} :
               AnswersTo(c.id) # {}}

HandledTools == {"check_availability", "finalize_booking", "list_bookings", "cancel_booking"}

\* C11: a tool call whose name is not one of the handled tools, handled on
\* an open channel, receives a response with its own id whose payload is a
\* structured error result, not an empty or a success payload.
C11_UnknownToolGetsError ==
  \A t \in {r \in terminated : r.open} : \A i \in DOMAIN t.calls :
    t.calls[i].name \notin HandledTools =>
      /\ AnswersTo(t.calls[i].id) # {}
      /\ Has(ResultOf(t.calls[i].id), "status")
      /\ ResultOf(t.calls[i].id)["status"] = "error"

\* a call of an undeclared tool has been answered
C11_Witness == \E c \in Answered : c.name \notin HandledTools

Unparseable(args) ==
  getTime(args["check_in_date"]) = NaN \/ getTime(args["check_out_date"]) = NaN

\* C12: handling check_availability with a check-in or check-out date that
\* does not parse sends the payload {status: unavailable, message} and
\* leaves currentBooking exactly as it was before the call.
C12_UnpriceableLeavesDraft ==
  [][\A c \in Handled :
       c.name = "check_availability" /\ Unparseable(c.args) =>
         /\ currentBooking' = currentBooking
         /\ \A r \in Sent :
              r.id = c.id =>
                /\ DOMAIN r.response.result = {"status", "message"}
                /\ r.response.result["status"] = "unavailable"]_vars

\* a check_availability call with an unparseable date has been answered
C12_Witness ==
  \E c \in Answered : c.name = "check_availability" /\ Unparseable(c.args)

\* C13: when the response to a finalize_booking call is sent, a booking
\* with the confirmation code of that response, the e-mail of the account
\* that opened the session and status confirmed is already in the store,
\* and the confirmation e-mail the call started is still outstanding.
C13_SavedBeforeAnswered ==
  [][\A r \in Sent :
       r.name = "finalize_booking" =>
         /\ Has(r.response.result, "confirmation_code")
         /\ \E i \in DOMAIN bookings' :
              /\ IsCode(bookings'[i], r.response.result["confirmation_code"])
              /\ Has(bookings'[i], "email")
              /\ \E ch \in DOMAIN channels : bookings'[i]["email"] = channels[ch].user
              /\ bookings'[i]["status"] = "confirmed"
         /\ variant = 1 => emailsPending' = emailsPending + 1 /\ emailStatus' = "sending"]_vars

\* a finalize_booking call has been answered while its e-mail is outstanding
C13_Witness ==
  /\ \E k \in DOMAIN toolResponses : toolResponses[k].name = "finalize_booking"
  /\ emailsPending > 0
  /\ bookings # <<>>

\* C14: within one session no two finalize_booking calls produce the same
\* confirmation code: a confirmation code identifies at most one stored
\* booking.
C14_CodesUnique ==
  \A i, j \in DOMAIN bookings :
    bookings[i]["confirmation_code"] = bookings[j]["confirmation_code"] => i = j

\* two bookings have been finalized in one session
C14_Witness == Len(bookings) = 2 /\ Len(channels) = 1

\* C15: handling cancel_booking(code) answers {status: success} exactly
\* when the store holds a booking with that confirmation code, and
\* {status: error, message} otherwise, in which case the store is unchanged.
C15_CancelAnswersByStore ==
  [][\A c \in Handled :
       c.name = "cancel_booking" =>
         LET found == \E i \in DOMAIN bookings :
                        IsCode(bookings[i], c.args["confirmation_code"])
         IN  /\ ~found => bookings' = bookings
             /\ \A r \in Sent :
                  r.id = c.id =>
                    /\ Has(r.response.result, "status")
                    /\ r.response.result["status"] = IF found THEN "success" ELSE "error"
                    /\ ~found => Has(r.response.result, "message")]_vars

\* one cancel_booking call was answered success and another one error
C15_Witness ==
  \E c1, c2 \in Answered :
    /\ c1.name = "cancel_booking" /\ c2.name = "cancel_booking"
    /\ Has(ResultOf(c1.id), "status") /\ ResultOf(c1.id)["status"] = "success"
    /\ Has(ResultOf(c2.id), "status") /\ ResultOf(c2.id)["status"] = "error"

Cancelled(store) == {store[i]["id"] : i \in {k \in DOMAIN store : store[k]["status"] = "cancelled"}}

\* C16: handling cancel_booking(c) leaves every stored booking with code c
\* cancelled; a cancelled booking stays cancelled, and no list_bookings
\* result handed over later contains it.
C16_CancelledStaysOffTheList ==
  [][/\ \A c \in Handled :
          c.name = "cancel_booking" =>
            \A i \in DOMAIN bookings :
              IsCode(bookings[i], c.args["confirmation_code"]) =>
                bookings[i]["id"] \in Cancelled(bookings')
     /\ Cancelled(bookings) \subseteq Cancelled(bookings')
     /\ \A r \in Sent :
          r.name = "list_bookings" =>
            \A k \in DOMAIN r.response.result :
              r.response.result[k]["id"] \notin Cancelled(bookings)]_vars

\* a booking was finalized, then cancelled, and list_bookings was answered after that
C16_Witness ==
  /\ Cancelled(bookings) # {}
  /\ \E k \in DOMAIN toolResponses :
       /\ toolResponses[k].name = "list_bookings"
       /\ \E j \in 1..(k - 1) : toolResponses[j].name = "cancel_booking"

\* C17: a list_bookings result is exactly the stored bookings, in store
\* order, whose email is the email of the user logged in at that moment
\* and whose status is confirmed.
C17_ListIsCurrentUsersActive ==
  [][\A r \in Sent :
       r.name = "list_bookings" /\ user # NoUser =>
         r.response.result =
           SelectSeq(bookings, LAMBDA b : b["email"] = user /\ b["status"] = "confirmed")]_vars

\* list_bookings has been answered with a non-empty list
C17_Witness ==
  \E k \in DOMAIN toolResponses :
    toolResponses[k].name = "list_bookings" /\ toolResponses[k].response.result # <<>>

\* ------------------------------------------------------------- pricing contracts
\* the check_availability calls that have been answered
Quoted == {c \in Answered : c.name = "check_availability"}

DayDiff(args) == Abs(getTime(args["check_out_date"]) - getTime(args["check_in_date"]))

\* C18: for every pair of parseable dates the quote has
\* nights = max(1, ceil(|check_out - check_in| / 1 day)), at least 1 also
\* for same-day and inverted pairs, and total = nights * rate.
C18_NightsClampedAndTotal ==
  \A c \in Quoted :
    ~Unparseable(c.args) =>
      LET r == ResultOf(c.id)
      IN  /\ {"nights", "rate", "total"} \subseteq DOMAIN r
          /\ r["nights"] = Max(1, CeilDiv(DayDiff(c.args), MsPerDay))
          /\ r["nights"] >= 1
          /\ r["total"] = r["nights"] * r["rate"]

\* a same-day pair or an inverted pair has been quoted
C18_Witness ==
  \E c \in Quoted :
    /\ ~Unparseable(c.args)
    /\ getTime(c.args["check_out_date"]) <= getTime(c.args["check_in_date"])

\* letter a is letter b up to case
SameLetter(a, b) ==
  a = b \/ \E k \in DOMAIN UpperCase : {a, b} = {UpperCase[k], LowerCase[k]}

\* key occurs in text, case-insensitively
Occurs(key, text) ==
  \E i \in 0..(Len(text) - Len(key)) : \A j \in 1..Len(key) : SameLetter(text[i + j], key[j])

\* C19: the rate of a quote is the rate of the first key of the rate
\* table, in declared order, that occurs in the lower-cased room_type, and
\* the standard rate (150) when no key occurs.
C19_FirstKeyInTableOrder ==
  \A c \in Quoted :
    ~Unparseable(c.args) =>
      LET r == ResultOf(c.id)
          hits == {k \in DOMAIN ROOM_RATES : Occurs(ROOM_RATES[k].key, c.args["room_type"])}
      IN  /\ Has(r, "rate")
          /\ hits = {} => r["rate"] = 150
          /\ \A k \in hits : (\A h \in hits : k <= h) => r["rate"] = ROOM_RATES[k].rate

\* a room type naming two keys and a room type naming none have been quoted
C19_Witness ==
  \E c \in Quoted :
    /\ ~Unparseable(c.args)
    /\ c.args["room_type"] \in {PresidentialSuite, FamilyDouble, Penthouse}

C21_MutedFramesHeldBack ==
  [][\A a \in DOMAIN channels : \A rms \in {0, 1} :
       onaudioprocess(a, rms) =>
         /\ isMuted => framesSent' = framesSent
         /\ rms > 0 => audioLevel' > 0
         /\ ~isMuted /\ Delivered(a) => FALSE \in framesSent']_vars

\* C22: every connect request that starts a session leaves BookingDraft
\* empty and FinalizedBooking none, so that the new session starts with
\* nothing of an earlier session on display.
C22_ConnectResetsDraft ==
  [][Len(channels') > Len(channels) =>
       currentBooking' = EmptyObj /\ finalizedBooking' = EmptyObj]_vars

\* the channels to the remote agent that are open
OpenChannels == {ch \in DOMAIN channels : channels[ch].st = "open"}

\* C23: at most one channel to the remote agent is open at any time: a
\* connect request creates a channel only while no earlier channel is
\* open, and a local end call leaves the channel it ends not open.
C23_OneChannelAtATime ==
  /\ [](Cardinality(OpenChannels) <= 1)
  /\ [][Len(channels') > Len(channels) => OpenChannels = {}]_vars
  /\ [][endCall /\ sessionRef # Null => channels'[sessionRef].st # "open"]_vars

\* C24: from one step to the next with ConnectionState Connected, the
\* PlaybackClock decreases only when an interruption signal resets it to
\* zero; every enqueue leaves it at or above its previous value and at or
\* above the device time.
C24_ClockMonotonic ==
  /\ [][connectionState = CONNECTED /\ connectionState' = CONNECTED
          /\ nextStartTimeRef' < nextStartTimeRef =>
            lastInterrupt' # lastInterrupt /\ nextStartTimeRef' = 0]_vars
  /\ [][Len(playLog') > Len(playLog) =>
          nextStartTimeRef' >= nextStartTimeRef /\ nextStartTimeRef' >= now]_vars

\* C25: when the decoding of a message's audio fails, ConnectionState, the
\* PlaybackClock and the scheduled set are left as they were, and every
\* tool call the message carries is executed and, on an open channel,
\* answered.
C25_DecodeFailureDropsOnlyChunk ==
  [][\A p \in pending :
       ~decodeAudioData(p.audio).ok /\ onmessageResumed(p) =>
         /\ connectionState' = connectionState
         /\ nextStartTimeRef' = nextStartTimeRef
         /\ scheduledSourcesRef' = scheduledSourcesRef
         /\ Len(toolLog') = Len(toolLog) + Len(p.calls)
         /\ Delivered(p.ch) =>
              \A i \in DOMAIN p.calls : \E r \in Sent : r.id = p.calls[i].id]_vars

\* C26: no step removes a booking from the store: every stored booking is
\* still stored after the step, with the same fields, and its status is
\* either unchanged or has gone from a non-cancelled status to cancelled.
C26_NothingRemoved ==
  [][\A i \in DOMAIN bookings :
       \E j \in DOMAIN bookings' :
         /\ bookings'[j]["id"] = bookings[i]["id"]
         /\ DOMAIN bookings'[j] = DOMAIN bookings[i]
         /\ \A f \in DOMAIN bookings[i] \ {"status"} : bookings'[j][f] = bookings[i][f]
         /\ \/ bookings'[j]["status"] = bookings[i]["status"]
            \/ bookings[i]["status"] # "cancelled" /\ bookings'[j]["status"] = "cancelled"]_vars

\* of two stored bookings one was cancelled from the drawer, with no
\* cancel_booking call handled
C26_Witness ==
  /\ Len(bookings) = 2
  /\ Cancelled(bookings) # {}
  /\ \A k \in DOMAIN toolResponses : toolResponses[k].name # "cancel_booking"

\* the steps that invoke stopAudio
StopStep ==
  \/ endCall
  \/ variant = 2 /\ handleLogout
  \/ \E ch \in DOMAIN channels : onclose(ch) \/ onerror(ch)

\* what stopAudio leaves behind: no handle held, nothing scheduled, the
\* PlaybackClock and the level at zero
Released ==
  /\ mediaStreamRef = Null /\ inputAudioContextRef = Null
  /\ processorRef = Null /\ outputAudioContextRef = Null
  /\ scheduledSourcesRef = {}
  /\ nextStartTimeRef = 0
  /\ audioLevel = 0

\* C27: stopAudio is idempotent: every invocation ends with the handles
\* released, the scheduled set empty, the PlaybackClock and the level at
\* zero, and an invocation that finds things so changes none of the
\* handles, devices, scheduled set, PlaybackClock and level.
C27_StopAudioIdempotent ==
  /\ [][StopStep => Released']_vars
  /\ [][StopStep /\ Released =>
          UNCHANGED <<mediaStreamRef, inputAudioContextRef, processorRef,
                      outputAudioContextRef, liveStreams, runningInputCtx, runningOutputCtx,
                      processors, scheduledSourcesRef, nextStartTimeRef, audioLevel>>]_vars

\* the user ended the call before the channel opened, and the channel has
\* opened and closed after that: stopAudio ran at the end call and again
\* at the close, with nothing acquired in between
C27_Witness ==
  /\ Released
  /\ \E ch \in DOMAIN channels :
       channels[ch].closeReq /\ channels[ch].st = "closed" /\ channels[ch].mic = "pending"

\* C28: BookingDraft is changed only by a connect request, by a logout and
\* by the handling of a check_availability call: a step that handles only
\* other tool calls, an audio chunk or an interruption signal leaves it
\* as it was.
C28_DraftChangedOnlyByQuote ==
  [][currentBooking' # currentBooking =>
       \/ Len(channels') > Len(channels)
       \/ user # NoUser /\ user' = NoUser
       \/ \E c \in Handled : c.name = "check_availability"]_vars

\* C29: from the user's end call, while ConnectionState is Disconnected and
\* until the next connect, no tool call is executed: no call is handled, no
\* function response is handed over, and the store changes only by a
\* cancellation from the drawer.
C29_NoToolCallAfterEnd ==
  [][ended = "end" /\ connectionState = DISCONNECTED =>
       /\ toolLog' = toolLog
       /\ toolResponses' = toolResponses
       /\ bookings' # bookings => \E code \in Codes : onCancel(code)]_vars

\* C30: the open callback of a channel sets ConnectionState to Connected
\* and requests the microphone when the state is Connecting; an open event
\* that finds any other state (the user has ended the call, or an error
\* was raised) leaves ConnectionState as it is and requests no microphone.
C30_OpenGuardedByConnecting ==
  [][\A ch \in DOMAIN channels :
       onopen(ch) =>
         IF connectionState = CONNECTING
         THEN connectionState' = CONNECTED /\ channels'[ch].mic = "pending"
         ELSE connectionState' = connectionState /\ channels'[ch].mic = channels[ch].mic]_vars

====
